---- MODULE Spec2Model ----
(***************************************************************************)
(* Model of the inverse_distance_weight crate: the Coord trait             *)
(* (src/src/coord.rs) and the IDW interpolator (src/src/idw.rs).           *)
(*                                                                         *)
(* Numbers.  The crate computes in N: Float (f32 or f64).  The model keeps *)
(* the IEEE-754 semantics of every operation the code performs (round to   *)
(* nearest, ties to even; gradual underflow; overflow to infinity; NaN     *)
(* from 0/0, inf/inf, inf-inf, 0*inf) on a binary format of Prec           *)
(* significand bits and largest exponent EMax (f64: 53 and 1023).  A       *)
(* finite number x is held as the integer                                  *)
(* x * 2^FracBits, so the smallest positive (subnormal) number is 1 and    *)
(* 1.0 is One; the largest finite number is MaxFin.  The sign of zero is   *)
(* not kept: the code never divides by a negative zero (weight_sum is a    *)
(* fold that starts at +0) and is_zero() holds of both zeros.              *)
(***************************************************************************)
EXTENDS Integers, Sequences, FiniteSets, TLC

\* ------------------------------------------------------------------------
\* The number format
\* ------------------------------------------------------------------------
\* Significand bits, and the largest exponent: as in IEEE 754 the smallest
\* normal number is 2^(1 - EMax), the smallest subnormal 2^(2 - EMax - Prec)
\* and the largest finite number (2 - 2^(1 - Prec)) * 2^EMax.
Prec == 5
EMax == 4

FracBits == EMax + Prec - 2
TopShift == 2 * EMax - 1

One == 2^FracBits
Two == 2 * One
Half == One \div 2
\* the smallest subnormal, 2^(2 - EMax - Prec)
Tiny == 2^(FracBits + 2 - EMax - Prec)
MaxFin == (2^Prec - 1) * 2^TopShift

PosInf == 4 * MaxFin
NegInf == 0 - PosInf
NaN == PosInf + 1

IsNaN(x) == x = NaN
IsInf(x) == x = PosInf \/ x = NegInf
IsFinite(x) == ~IsNaN(x) /\ ~IsInf(x)

AbsInt(n) == IF n < 0 THEN 0 - n ELSE n
Sign(n) == IF n < 0 THEN 0 - 1 ELSE 1

\* The least s >= 0 with n < 2^Prec * d * 2^s: the binade of n/d.
RECURSIVE Shift(_, _)
Shift(n, d) == IF n < (2^Prec) * d THEN 0 ELSE 1 + Shift(n, 2 * d)

\* round-to-nearest, ties-to-even of the non-negative rational n/d
RoundPos(n, d) ==
    LET s == Shift(n, d)
        dd == d * 2^s
        q == n \div dd
        r == n % dd
        up == (2 * r > dd) \/ (2 * r = dd /\ q % 2 = 1)
        v == (IF up THEN q + 1 ELSE q) * 2^s
    IN IF v > MaxFin THEN PosInf ELSE v

\* The float nearest to the rational n/d (d > 0), n/d given in units of
\* 2^-FracBits.
Round(n, d) == IF n < 0 THEN 0 - RoundPos(0 - n, d) ELSE RoundPos(n, d)

Neg(x) == IF IsNaN(x) THEN NaN ELSE 0 - x

\* Float::abs
Abs(x) == IF IsNaN(x) THEN NaN ELSE AbsInt(x)

\* x + y
Add(x, y) ==
    IF IsNaN(x) \/ IsNaN(y) THEN NaN
    ELSE IF IsInf(x) /\ IsInf(y) THEN (IF x = y THEN x ELSE NaN)
    ELSE IF IsInf(x) THEN x
    ELSE IF IsInf(y) THEN y
    ELSE Round(x + y, 1)

\* x - y
Sub(x, y) == Add(x, Neg(y))

\* x * y
Mul(x, y) ==
    IF IsNaN(x) \/ IsNaN(y) THEN NaN
    ELSE IF IsInf(x) \/ IsInf(y)
         THEN (IF x = 0 \/ y = 0 THEN NaN ELSE Sign(x) * Sign(y) * PosInf)
    ELSE IF x = 0 \/ y = 0 THEN 0
    ELSE IF AbsInt(x) > (2 * MaxFin * One) \div AbsInt(y)
         THEN Sign(x) * Sign(y) * PosInf
    ELSE Sign(x) * Sign(y) * RoundPos(AbsInt(x) * AbsInt(y), One)

\* x / y
Div(x, y) ==
    IF IsNaN(x) \/ IsNaN(y) THEN NaN
    ELSE IF IsInf(x) THEN (IF IsInf(y) THEN NaN ELSE Sign(x) * Sign(y) * PosInf)
    ELSE IF IsInf(y) THEN 0
    ELSE IF y = 0 THEN (IF x = 0 THEN NaN ELSE Sign(x) * PosInf)
    ELSE Sign(x) * Sign(y) * RoundPos(AbsInt(x) * One, AbsInt(y))

\* floor of the square root of n >= 0
ISqrt(n) == CHOOSE m \in 0..(2^(Prec + 1)) : m * m <= n /\ n < (m + 1) * (m + 1)

\* The least s >= 0 with n < 4^Prec * 4^s: the binade of sqrt(n).
RECURSIVE SqrtShift(_)
SqrtShift(n) == IF n < 4^Prec THEN 0 ELSE 1 + SqrtShift(n \div 4)

\* Float::sqrt, correctly rounded
Sqrt(x) ==
    IF IsNaN(x) \/ x < 0 THEN NaN
    ELSE IF x = PosInf THEN PosInf
    ELSE LET n == x * One
             s == SqrtShift(n)
             m == ISqrt(n \div 4^s)
             \* sqrt(n) against the midpoint (m + 1/2) * 2^s
             lhs == 4 * n
             rhs == (2 * m + 1) * (2 * m + 1) * 4^s
             up == lhs > rhs \/ (lhs = rhs /\ m % 2 = 1)
         IN (IF up THEN m + 1 ELSE m) * 2^s

\* ------------------------------------------------------------------------
\* coord.rs: the Coord trait.  A coordinate is a tuple of 1, 2 or 3 numbers
\* (the scalar impl is the 1-tuple).
\* ------------------------------------------------------------------------
\* the scalar distance without abs()
distance_to_1d_signed(self, rhs) == Sub(rhs[1], self[1])

distance_to_1d(self, rhs) == Abs(Sub(rhs[1], self[1]))

distance_to_2d(self, rhs) ==
    LET dx == Sub(rhs[1], self[1])
        dy == Sub(rhs[2], self[2])
    IN Sqrt(Add(Mul(dx, dx), Mul(dy, dy)))

distance_to_3d(self, rhs) ==
    LET dx == Sub(rhs[1], self[1])
        dy == Sub(rhs[2], self[2])
        dz == Sub(rhs[3], self[3])
    IN Sqrt(Add(Add(Mul(dx, dx), Mul(dy, dy)), Mul(dz, dz)))

distance_to(self, rhs) ==
    CASE Len(self) = 1 -> distance_to_1d(self, rhs)
      [] Len(self) = 2 -> distance_to_2d(self, rhs)
      [] Len(self) = 3 -> distance_to_3d(self, rhs)

\* ------------------------------------------------------------------------
\* idw.rs: the IDW struct and its methods
\* ------------------------------------------------------------------------
\* Float::powf for the exponents the model configures; a result the format
\* holds exactly is exact, any other is rounded to nearest.
powf(x, n) ==
    CASE n = 0 -> One
      [] n = Two -> Mul(x, x)
      [] n = Half -> Sqrt(x)
      [] n = Neg(One) -> Div(One, x)

\* The closures a caller installs with weighted_function.
ApplyFunc(func, weight) ==
    CASE func = "identity" -> weight
      [] func = "complement" -> Sub(One, weight)
      [] func = "centre" -> Sub(weight, Half)

\* iter().fold(N::zero(), |acc, w| acc + *w)
RECURSIVE SumFold(_, _, _)
SumFold(weights, i, acc) ==
    IF i > Len(weights) THEN acc
    ELSE SumFold(weights, i + 1, Add(acc, weights[i]))

\* normalize_weights dividing by the number of weights, not their sum.
normalize_weights_by_len(weights) ==
    [i \in 1..Len(weights) |-> Div(weights[i], Len(weights) * One)]

normalize_weights(weights) ==
    LET weight_sum == SumFold(weights, 1, 0)
    IN [i \in 1..Len(weights) |-> Div(weights[i], weight_sum)]

\* Collect without the test of a zero distance.
RECURSIVE CollectUnchecked(_, _, _, _)
CollectUnchecked(self, position, index, acc) ==
    IF index > Len(self.points)
    THEN [ok |-> TRUE, weights |-> acc, index |-> 0]
    ELSE LET distance == distance_to(self.points[index], position)
         IN CollectUnchecked(self, position, index + 1,
                Append(acc, Div(One, powf(distance, self.power_parameter))))

\* Collect that keeps the last sample at distance zero, not the first.
RECURSIVE CollectLast(_, _, _, _)
CollectLast(self, position, index, acc) ==
    IF index > Len(self.points)
    THEN (IF acc.index = 0 THEN acc ELSE [ok |-> FALSE, weights |-> <<>>, index |-> acc.index])
    ELSE LET distance == distance_to(self.points[index], position)
             sofar == IF index = 1 THEN [ok |-> TRUE, weights |-> <<>>, index |-> 0] ELSE acc
         IN IF distance = 0
            THEN CollectLast(self, position, index + 1, [sofar EXCEPT !.index = index])
            ELSE CollectLast(self, position, index + 1,
                     [sofar EXCEPT !.weights =
                         Append(@, Div(One, powf(distance, self.power_parameter)))])

\* Collect whose weight is distance^p, not its reciprocal.
RECURSIVE CollectNoReciprocal(_, _, _, _)
CollectNoReciprocal(self, position, index, acc) ==
    IF index > Len(self.points)
    THEN [ok |-> TRUE, weights |-> acc, index |-> 0]
    ELSE LET distance == distance_to(self.points[index], position)
         IN IF distance = 0
            THEN [ok |-> FALSE, weights |-> <<>>, index |-> index]
            ELSE CollectNoReciprocal(self, position, index + 1,
                     Append(acc, powf(distance, self.power_parameter)))

\* The closure of evaluate's map, collected into Result<Vec<N>, usize>: the
\* first sample at distance zero ends the iteration with Err(index) (index
\* counted from 1 here), else Ok(weights).
RECURSIVE Collect(_, _, _, _)
Collect(self, position, index, acc) ==
    IF index > Len(self.points)
    THEN [ok |-> TRUE, weights |-> acc, index |-> 0]
    ELSE LET distance == distance_to(self.points[index], position)
         IN IF distance = 0
            THEN [ok |-> FALSE, weights |-> <<>>, index |-> index]
            ELSE Collect(self, position, index + 1,
                         Append(acc, Div(One, powf(distance, self.power_parameter))))

\* BlendFold whose fold starts at one, not at zero.
RECURSIVE BlendFoldFromOne(_, _, _, _)
BlendFoldFromOne(weights, vals, i, acc) ==
    IF i > Len(weights) \/ i > Len(vals) THEN (IF i = 1 THEN One ELSE acc)
    ELSE BlendFoldFromOne(weights, vals, i + 1,
             Add(IF i = 1 THEN One ELSE acc, Mul(weights[i], vals[i])))

\* zip(&self.values).fold(N::zero(), |acc, (w, v)| acc + *w * *v)
RECURSIVE BlendFold(_, _, _, _)
BlendFold(weights, vals, i, acc) ==
    IF i > Len(weights) \/ i > Len(vals) THEN acc
    ELSE BlendFold(weights, vals, i + 1, Add(acc, Mul(weights[i], vals[i])))

\* OkArm without the second normalization.
OkArmNoRenormalize(self, weights) ==
    LET normalized_weights == normalize_weights(weights)
    IN IF self.weighted_function = "None"
       THEN [func_args |-> <<>>, weights |-> normalized_weights]
       ELSE [func_args |-> normalized_weights,
             weights |-> [i \in 1..Len(normalized_weights) |->
                     ApplyFunc(self.weighted_function, normalized_weights[i])]]

\* OkArm that calls func on the raw weights and normalizes once.
OkArmFuncOnRaw(self, weights) ==
    IF self.weighted_function = "None"
    THEN [func_args |-> <<>>, weights |-> normalize_weights(weights)]
    ELSE [func_args |-> weights,
          weights |-> normalize_weights(
              [i \in 1..Len(weights) |->
                  ApplyFunc(self.weighted_function, weights[i])])]

\* The match arm Ok(weights): the first normalization, then, when a function
\* is installed, func on every normalized weight and the second
\* normalization.  func_args are the numbers func was called with, weights
\* the weights the blend uses.
OkArm(self, weights) ==
    LET normalized_weights == normalize_weights(weights)
    IN IF self.weighted_function = "None"
       THEN [func_args |-> <<>>, weights |-> normalized_weights]
       ELSE [func_args |-> normalized_weights,
             weights |-> normalize_weights(
                 [i \in 1..Len(normalized_weights) |->
                     ApplyFunc(self.weighted_function, normalized_weights[i])])]

\* IDW::evaluate, with what a call computes on the way: the index of the
\* exact match (0: none), the arguments func was called with, the weights
\* blended, and the value returned.
evaluate(self, position) ==
    LET weight_result == Collect(self, position, 1, <<>>)
    IN IF weight_result.ok
       THEN LET arm == OkArm(self, weight_result.weights)
            IN [position |-> position, index |-> 0,
                func_args |-> arm.func_args,
                weights |-> arm.weights,
                result |-> BlendFold(arm.weights, self.values, 1, 0)]
       ELSE [position |-> position, index |-> weight_result.index,
             func_args |-> <<>>, weights |-> <<>>,
             result |-> self.values[weight_result.index]]

\* ------------------------------------------------------------------------
\* Inputs
\* ------------------------------------------------------------------------
MaxLen == 2

Shapes == {1, 2, 3}

\* Sample points and query positions per coordinate shape.
PointsOf(shape) ==
    CASE shape = 1 -> {<<0>>, <<Half>>, <<Two>>}
      [] shape = 2 -> {<<0, 0>>, <<Tiny, 0>>, <<One, One>>}
      [] shape = 3 -> {<<0, 0, 0>>, <<One, One, One>>}

PositionsOf(shape) ==
    CASE shape = 1 -> PointsOf(1) \cup {<<Tiny>>, <<Half \div 2>>, <<3 * Half>>, <<4 * One>>, <<MaxFin>>}
      [] shape = 2 -> PointsOf(2) \cup {<<3 * Half, 5 * Half>>}
      [] shape = 3 -> PointsOf(3) \cup {<<One, Two, 3 * One>>}

Values == {One, 3 * One}

Powers == {Neg(One), 0, Half, Two}

Functions == {"identity", "complement", "centre"}

SeqsOf(S, n) == UNION {[1..k -> S] : k \in 0..n}

\* The sample sets of test_idw_1d, test_idw_2d and test_idw_3d.
Scenario(shape) ==
    <<[i \in 1..3 |-> [k \in 1..shape |-> i * One]], [i \in 1..3 |-> i * One]>>

NoIDW == [points |-> <<>>, values |-> <<>>, power_parameter |-> 0,
          weighted_function |-> "None"]

NoCall == [position |-> <<>>, index |-> 0, func_args |-> <<>>,
           weights |-> <<>>, result |-> 0]

NoDist == [self |-> <<>>, rhs |-> <<>>, result |-> 0]

\* The threads that share one instance.
NThreads == 2

Threads == 1..NThreads

\* The locals of a call of evaluate: the index the iterator is at, the
\* weights collected so far, and the value to return.
NoFrame == [i |-> 0, weights |-> <<>>, result |-> 0]

VARIABLES
    state,     \* "start", "built" (an instance exists) or "panicked"
    args,      \* the arguments of the call of new
    idw,       \* the instance
    called,    \* whether evaluate was called on the instance as configured
    call,      \* what that call computed
    dist,      \* a call of distance_to: its arguments and what it returned
    pc,        \* per thread: where its call of evaluate is
    arg,       \* per thread: the position its call was given
    frames     \* the locals of the calls in progress

vars == <<state, args, idw, called, call, dist, pc, arg, frames>>

distVars == <<dist>>

concVars == <<pc, arg, frames>>

Init ==
    /\ state = "start"
    /\ args = <<<<>>, <<>>>>
    /\ idw = NoIDW
    /\ called = FALSE
    /\ call = NoCall
    /\ dist = NoDist
    /\ pc = [t \in Threads |-> "idle"]
    /\ arg = [t \in Threads |-> <<>>]
    /\ frames = [t \in Threads |-> NoFrame]

\* new without the assertion that the lengths are equal.
new_any_length(points, values) ==
    /\ state = "start"
    /\ args' = <<points, values>>
    /\ IF Len(points) # 0 /\ Len(values) # 0
       THEN /\ state' = "built"
            /\ idw' = [points |-> points, values |-> values,
                       power_parameter |-> Two, weighted_function |-> "None"]
       ELSE /\ state' = "panicked"
            /\ idw' = idw
    /\ UNCHANGED <<called, call, dist, pc, arg, frames>>

\* IDW::new: the three assertions, then the instance with the default power.
new(points, values) ==
    /\ state = "start"
    /\ args' = <<points, values>>
    /\ IF Len(points) # 0 /\ Len(values) # 0 /\ Len(points) = Len(values)
       THEN /\ state' = "built"
            /\ idw' = [points |-> points, values |-> values,
                       power_parameter |-> Two, weighted_function |-> "None"]
       ELSE /\ state' = "panicked"
            /\ idw' = idw
    /\ UNCHANGED <<called, call, dist, pc, arg, frames>>

\* IDW::power
power(p) ==
    /\ state = "built"
    /\ idw' = [idw EXCEPT !.power_parameter = p]
    /\ called' = FALSE
    /\ call' = NoCall
    /\ UNCHANGED <<state, args, dist, pc, arg, frames>>

\* IDW::weighted_function
weighted_function(func) ==
    /\ state = "built"
    /\ idw' = [idw EXCEPT !.weighted_function = func]
    /\ called' = FALSE
    /\ call' = NoCall
    /\ UNCHANGED <<state, args, dist, pc, arg, frames>>

\* A call of IDW::evaluate.  call holds what the latest call computed until the
\* caller drops it (Drop), so a run of calls is Evaluate, Drop, Evaluate, ...
Evaluate(position) ==
    /\ state = "built"
    /\ ~called
    /\ called' = TRUE
    /\ call' = evaluate(idw, position)
    /\ UNCHANGED <<state, args, idw, dist, pc, arg, frames>>

New ==
    \E shape \in Shapes :
        \/ \E points \in SeqsOf(PointsOf(shape), MaxLen), values \in SeqsOf(Values, MaxLen) :
               new(points, values)
        \/ new(Scenario(shape)[1], Scenario(shape)[2])

Power == \E p \in Powers : power(p)

WeightedFunction == \E func \in Functions : weighted_function(func)

Eval ==
    /\ state = "built" /\ ~called
    /\ \E position \in PositionsOf(Len(idw.points[1])) : Evaluate(position)

\* The caller drops the value evaluate returned.
Drop ==
    /\ called
    /\ called' = FALSE
    /\ call' = NoCall
    /\ UNCHANGED <<state, args, idw, dist, pc, arg, frames>>

Next == New \/ Power \/ WeightedFunction \/ Eval \/ Drop

Spec == Init /\ [][Next]_vars

\* ------------------------------------------------------------------------
\* Calls of distance_to on coordinates of the three shapes
\* ------------------------------------------------------------------------
\* The coordinates of the tests of coord.rs, and coordinates at the ends of
\* the format.
CoordsOf(shape) ==
    CASE shape = 1 -> {<<0>>, <<Tiny>>, <<One>>, <<3 * One>>, <<Neg(3 * One)>>,
                       <<4 * One>>, <<Neg(4 * One)>>, <<7 * Half>>, <<9 * Half>>,
                       <<MaxFin>>, <<Neg(MaxFin)>>}
      [] shape = 2 -> {<<0, 0>>, <<3 * One, 4 * One>>, <<One, One>>,
                       <<4 * One, 5 * One>>, <<Neg(One), Neg(One)>>,
                       <<Neg(4 * One), Neg(5 * One)>>, <<Two, 3 * One>>,
                       <<3 * Half, 3 * Half>>, <<9 * Half, 11 * Half>>,
                       <<Tiny, 0>>, <<MaxFin, Neg(MaxFin)>>}
      [] shape = 3 -> {<<0, 0, 0>>, <<One, Two, Two>>,
                       <<Neg(One), Neg(Two), Neg(Two)>>,
                       <<Neg(Two), Neg(4 * One), Neg(4 * One)>>,
                       <<Two, 4 * One, 4 * One>>, <<MaxFin, 0, Tiny>>}

InitDist == Init

\* self.distance_to(&rhs)
DistanceTo(self, rhs) ==
    /\ dist' = [self |-> self, rhs |-> rhs, result |-> distance_to(self, rhs)]
    /\ UNCHANGED <<state, args, idw, called, call, pc, arg, frames>>

NextDist == \E shape \in Shapes : \E self, rhs \in CoordsOf(shape) : DistanceTo(self, rhs)

SpecDist == InitDist /\ [][NextDist]_vars

\* ------------------------------------------------------------------------
\* Calls of evaluate from several threads on one shared instance.  A call
\* runs in steps: the iterator over the points, the first normalization, the
\* function and the second normalization, the blend, the return.
\* ------------------------------------------------------------------------
\* The instance new(points, values).power(p).weighted_function(func) builds
\* (func = "None": weighted_function is not called).
Built(points, values, p, func) ==
    [points |-> points, values |-> values, power_parameter |-> p,
     weighted_function |-> func]

SharedInstances ==
    {Built(sample[1], sample[2], p, func) :
        sample \in {Scenario(1), <<<<<<0>>, <<Two>>>>, <<One, 3 * One>>>>},
        p \in {Half, Two}, func \in {"None", "complement"}}

SharedPositions == {<<0>>, <<One>>, <<3 * Half>>}

InitConc ==
    /\ idw \in SharedInstances
    /\ state = "built"
    /\ args = <<idw.points, idw.values>>
    /\ called = FALSE
    /\ call = NoCall
    /\ dist = NoDist
    /\ pc = [t \in Threads |-> "idle"]
    /\ arg = [t \in Threads |-> <<>>]
    /\ frames = [t \in Threads |-> NoFrame]

\* The locals of every call live in one slot all calls share.
SlotShared(t) == 1

\* The locals of thread t's call live in that call's own frame.
Slot(t) == t

\* evaluate(&self, position) is entered.
EvaluateBegin(t, position) ==
    /\ pc[t] = "idle"
    /\ arg' = [arg EXCEPT ![t] = position]
    /\ frames' = [frames EXCEPT ![Slot(t)] = [i |-> 1, weights |-> <<>>, result |-> 0]]
    /\ pc' = [pc EXCEPT ![t] = "collect"]
    /\ UNCHANGED <<state, args, idw, called, call, dist>>

\* One step of the iterator over the points: the distance, then the exact
\* match (the value is returned) or the weight.
EvaluateCollect(t) ==
    /\ pc[t] = "collect"
    /\ LET frame == frames[Slot(t)]
       IN IF frame.i > Len(idw.points)
          THEN /\ pc' = [pc EXCEPT ![t] = "normalize"]
               /\ frames' = frames
          ELSE LET distance == distance_to(idw.points[frame.i], arg[t])
               IN IF distance = 0
                  THEN /\ frames' = [frames EXCEPT ![Slot(t)].result = idw.values[frame.i]]
                       /\ pc' = [pc EXCEPT ![t] = "done"]
                  ELSE /\ frames' = [frames EXCEPT
                                        ![Slot(t)].weights =
                                            Append(frame.weights,
                                                   Div(One, powf(distance, idw.power_parameter))),
                                        ![Slot(t)].i = frame.i + 1]
                       /\ pc' = pc
    /\ UNCHANGED <<state, args, idw, called, call, dist, arg>>

\* The first normalize_weights.
EvaluateNormalize(t) ==
    /\ pc[t] = "normalize"
    /\ frames' = [frames EXCEPT ![Slot(t)].weights = normalize_weights(frames[Slot(t)].weights)]
    /\ pc' = [pc EXCEPT ![t] = IF idw.weighted_function = "None"
                                THEN "blend" ELSE "transform"]
    /\ UNCHANGED <<state, args, idw, called, call, dist, arg>>

\* The function on every weight, and the second normalize_weights.
EvaluateTransform(t) ==
    /\ pc[t] = "transform"
    /\ LET weights == frames[Slot(t)].weights
       IN frames' = [frames EXCEPT
                        ![Slot(t)].weights =
                            normalize_weights(
                                [i \in 1..Len(weights) |->
                                    ApplyFunc(idw.weighted_function, weights[i])])]
    /\ pc' = [pc EXCEPT ![t] = "blend"]
    /\ UNCHANGED <<state, args, idw, called, call, dist, arg>>

\* The fold over the weights zipped with the values.
EvaluateBlend(t) ==
    /\ pc[t] = "blend"
    /\ frames' = [frames EXCEPT
                     ![Slot(t)].result = BlendFold(frames[Slot(t)].weights, idw.values, 1, 0)]
    /\ pc' = [pc EXCEPT ![t] = "done"]
    /\ UNCHANGED <<state, args, idw, called, call, dist, arg>>

\* The call returns; its locals are dropped.
EvaluateReturn(t) ==
    /\ pc[t] = "done"
    /\ pc' = [pc EXCEPT ![t] = "idle"]
    /\ arg' = [arg EXCEPT ![t] = <<>>]
    /\ frames' = [frames EXCEPT ![Slot(t)] = NoFrame]
    /\ UNCHANGED <<state, args, idw, called, call, dist>>

Begin == \E t \in Threads : \E position \in SharedPositions : EvaluateBegin(t, position)

Collecting == \E t \in Threads : EvaluateCollect(t)

Normalizing == \E t \in Threads : EvaluateNormalize(t)

Transforming == \E t \in Threads : EvaluateTransform(t)

Blending == \E t \in Threads : EvaluateBlend(t)

Returning == \E t \in Threads : EvaluateReturn(t)

NextConc == Begin \/ Collecting \/ Normalizing \/ Transforming \/ Blending \/ Returning

SpecConc == InitConc /\ [][NextConc]_vars

\* ------------------------------------------------------------------------
\* Properties
\* ------------------------------------------------------------------------
N == Len(idw.points)

\* The distance of sample i from the position of the call.
Dist(i) == distance_to(idw.points[i], call.position)

\* The samples at distance zero from the position of the call.
ZeroSet == {i \in 1..N : Dist(i) = 0}

MinOf(S) == CHOOSE i \in S : \A j \in S : i <= j

NoMatch == called /\ ZeroSet = {}

\* C1 as stated: evaluate(points[i]) returns exactly values[i], for every
\* index i, whatever power and function are configured.
C1_EverySampleReturnsItsValue ==
    called =>
        \A i \in 1..N :
            idw.points[i] = call.position => call.result = idw.values[i]

\* C1 as amended: evaluate(points[i]) returns exactly the value of the first
\* sample at distance zero from points[i]; that is values[i] when no earlier
\* sample is at distance zero from points[i].
C1_SampleReturnsFirstCoincidentValue ==
    called =>
        \A i \in 1..N :
            idw.points[i] = call.position =>
                LET first == MinOf({j \in 1..N :
                                distance_to(idw.points[j], idw.points[i]) = 0})
                IN /\ call.result = idw.values[first]
                   /\ (\A j \in 1..(i - 1) :
                           distance_to(idw.points[j], idw.points[i]) # 0)
                          => call.result = idw.values[i]

\* evaluate was called at the second sample's point, whose value differs from
\* the first's, with a function installed and a power other than the default.
C1_Witness ==
    /\ called
    /\ N >= 2
    /\ idw.points[2] = call.position
    /\ idw.points[1] # idw.points[2]
    /\ idw.values[1] # idw.values[2]
    /\ idw.weighted_function # "None"
    /\ idw.power_parameter # Two
    /\ call.result = idw.values[2]

\* C2: when the position is at distance zero from several samples, evaluate
\* returns the value of the one with the smallest index, found as the exact
\* match, and neither computes weights nor calls the function.
C2_FirstMatchWins ==
    (called /\ ZeroSet # {}) =>
        /\ call.index = MinOf(ZeroSet)
        /\ call.result = idw.values[MinOf(ZeroSet)]
        /\ call.weights = <<>>
        /\ call.func_args = <<>>

\* Two samples with different values are at distance zero from the position.
C2_Witness ==
    /\ called
    /\ \E i, j \in ZeroSet : i < j /\ idw.values[i] # idw.values[j]
    /\ idw.weighted_function # "None"

ValidArgs ==
    /\ Len(args[1]) >= 1
    /\ Len(args[2]) >= 1
    /\ Len(args[1]) = Len(args[2])

\* C3: new produces an instance exactly when points and values are non-empty
\* and of equal length, and panics otherwise, leaving no instance; so every
\* instance has len(points) = len(values) >= 1.
C3_NewValidates ==
    /\ state = "built" =>
           /\ ValidArgs
           /\ idw.points = args[1] /\ idw.values = args[2]
           /\ Len(idw.points) = Len(idw.values) /\ Len(idw.points) >= 1
    /\ state = "panicked" => (~ValidArgs /\ idw = NoIDW)
    /\ state = "start" => idw = NoIDW

\* new panicked on non-empty vectors of different lengths.
C3_Witness ==
    /\ state = "panicked"
    /\ Len(args[1]) = 2
    /\ Len(args[2]) = 1

\* ------------------------------------------------------------------------
\* Reference quantities of the call, computed from the instance and the
\* position.
\* ------------------------------------------------------------------------
RECURSIVE ExactSum(_, _)
ExactSum(seq, i) == IF i > Len(seq) THEN 0 ELSE seq[i] + ExactSum(seq, i + 1)

RECURSIVE ExactDot(_, _, _)
ExactDot(ws, vs, i) ==
    IF i > Len(ws) THEN 0 ELSE ws[i] * vs[i] + ExactDot(ws, vs, i + 1)

AllFinite(seq) == \A i \in 1..Len(seq) : IsFinite(seq[i])

MaxAbsValue == CHOOSE m \in {AbsInt(idw.values[i]) : i \in 1..N} :
                   \A i \in 1..N : AbsInt(idw.values[i]) <= m
MinValue == CHOOSE m \in {idw.values[i] : i \in 1..N} : \A i \in 1..N : m <= idw.values[i]
MaxValue == CHOOSE m \in {idw.values[i] : i \in 1..N} : \A i \in 1..N : idw.values[i] <= m

\* w_i = 1 / d_i^p as the format computes it
RefRaw == [i \in 1..N |-> Div(One, powf(Dist(i), idw.power_parameter))]

\* n_i = w_i / sum_j w_j
RefNorm == normalize_weights(RefRaw)

\* f(n_i), for the normalized weights n
Transformed(n) == [i \in 1..Len(n) |-> ApplyFunc(idw.weighted_function, n[i])]

RefTransformed == Transformed(RefNorm)

\* A sequence of finite, non-negative weights whose computed sum is finite
\* and positive: no overflow, and a normalization that divides by a number.
Summable(ws) ==
    /\ AllFinite(ws)
    /\ \A i \in 1..Len(ws) : ws[i] >= 0
    /\ LET sum == SumFold(ws, 1, 0) IN IsFinite(sum) /\ sum > 0

\* k * n * eps * max|values|, eps = 2^(1 - Prec), plus n times the smallest
\* subnormal: the rounding of n normalized weights and of the blend's n
\* products and sums.
Tol(k) == (2 * k * N * MaxAbsValue) \div 2^Prec + N

\* |x - num/den| <= tol, for den > 0
Near(x, num, den, tol) == AbsInt(x * den - num) <= tol * den

\* C4 as stated: without an exact match the weights blended sum to 1, for any
\* power and any function.
C4_WeightsSumToOne ==
    NoMatch => SumFold(call.weights, 1, 0) = One

\* The weights that enter the last normalization.
LastInput == IF idw.weighted_function = "None" THEN RefRaw ELSE RefTransformed

\* C4 as amended: without an exact match, when the weights entering the last
\* normalization are finite and non-negative and their computed sum is finite
\* and positive, the weights blended sum to 1 within n * eps.
C4_WeightsSumToOneWithinRounding ==
    NoMatch =>
        LET last == LastInput
        IN Summable(last) =>
               /\ AllFinite(call.weights)
               /\ AbsInt(ExactSum(call.weights, 1) - One) * 2^Prec <= 2 * N * One

\* A function is installed, the weights it returns need the second
\* normalization, and the weights blended do not sum to exactly 1.
C4_Witness ==
    /\ NoMatch
    /\ idw.weighted_function = "complement"
    /\ N = 3
    /\ Summable(LastInput)
    /\ ExactSum(LastInput, 1) > One
    /\ ExactSum(call.weights, 1) # One

\* The same call on the instance with no function installed.
WithoutFunc == evaluate([idw EXCEPT !.weighted_function = "None"], call.position)

\* C5 as stated: with the identity installed evaluate returns the same result
\* as with no function installed.
C5_IdentitySameResult ==
    (called /\ idw.weighted_function = "identity") =>
        call.result = WithoutFunc.result

\* C5 as amended: with the identity installed evaluate returns the result of
\* no function exactly on an exact match, and within 3 * n * eps * max|values|
\* otherwise, when the raw weights are summable and both results finite.
C5_IdentityWithinRounding ==
    (called /\ idw.weighted_function = "identity") =>
        LET without == WithoutFunc
        IN /\ call.index # 0 =>
                  (call.result = without.result /\ call.index = without.index)
           /\ (NoMatch /\ Summable(RefRaw)
                   /\ IsFinite(call.result) /\ IsFinite(without.result)) =>
                  AbsInt(call.result - without.result) <= Tol(3)

\* With the identity installed and no exact match, the result differs from
\* the result with no function installed.
C5_Witness ==
    /\ NoMatch
    /\ idw.weighted_function = "identity"
    /\ Summable(RefRaw)
    /\ IsFinite(call.result) /\ IsFinite(WithoutFunc.result)
    /\ call.result # WithoutFunc.result

\* The call is on the 1-D sample set of test_idw_1d with the default power
\* and no function.
IsTest1D ==
    /\ idw.points = Scenario(1)[1] /\ idw.values = Scenario(1)[2]
    /\ idw.power_parameter = Two /\ idw.weighted_function = "None"

\* C7 as stated: with no function and no exact match, evaluate(position) is
\* sum_i(values[i] * w_i) / sum_j w_j, w_i = 1 / d_i^p, up to the rounding of
\* the format.
C7_WeightedMean ==
    (NoMatch /\ idw.weighted_function = "None") =>
        LET raw == RefRaw
        IN (AllFinite(raw) /\ ExactSum(raw, 1) > 0) =>
               /\ IsFinite(call.result)
               /\ Near(call.result, ExactDot(raw, idw.values, 1), ExactSum(raw, 1), Tol(2))

\* The weighted mean of C7 as amended, within rounding, on every call it covers.
C7_Mean ==
    (NoMatch /\ idw.weighted_function = "None") =>
        LET raw == RefRaw
        IN (Summable(raw) /\ IsFinite(call.result)) =>
               /\ Near(call.result, ExactDot(raw, idw.values, 1), ExactSum(raw, 1), Tol(2))
               /\ (IsTest1D /\ call.position = <<0>>) =>
                      Near(call.result, 66 * One, 49, Tol(2))
               /\ (IsTest1D /\ call.position = <<3 * Half>>) =>
                      Near(call.result, 30 * One, 19, Tol(2))
               /\ (IsTest1D /\ call.position = <<4 * One>>) =>
                      Near(call.result, 130 * One, 49, Tol(2))

\* C7 as amended: with no function and no exact match, when the raw weights
\* are summable and the result is finite, evaluate(position) is
\* sum_i(values[i] * w_i) / sum_j w_j within 2 * n * eps * max|values|
\* (66/49, 30/19 and 130/49 on the test's samples); and new sets the power
\* to 2 and installs no function.
C7_WeightedMeanWithinRounding ==
    /\ []C7_Mean
    /\ [][(state = "start" /\ state' = "built") =>
              (idw'.power_parameter = Two /\ idw'.weighted_function = "None")]_vars

\* The test's samples, evaluated at 0 with the default power: a blend of the
\* three values.
C7_Witness ==
    /\ NoMatch
    /\ IsTest1D
    /\ call.position = <<0>>
    /\ Summable(RefRaw)
    /\ call.result > One /\ call.result < Two

C10_WithinValueRange ==
    (called /\ idw.weighted_function = "None") =>
        /\ IsFinite(call.result)
        /\ MinValue <= call.result /\ call.result <= MaxValue
        /\ N = 1 => call.result = idw.values[1]

\* C10 as amended: with no function, the result is a sample's value on an
\* exact match; it lies within 2 * n * eps * max|values| of the range of the
\* values when the raw weights are summable and the result is finite; and a
\* single sample's value is returned exactly when its raw weight is finite
\* and positive.
C10_WithinValueRangeWithinRounding ==
    (called /\ idw.weighted_function = "None") =>
        /\ call.index # 0 => call.result \in {idw.values[i] : i \in 1..N}
        /\ NoMatch =>
               LET raw == RefRaw
               IN Summable(raw) =>
                      /\ IsFinite(call.result) =>
                             /\ MinValue - Tol(2) <= call.result
                             /\ call.result <= MaxValue + Tol(2)
                      /\ N = 1 => call.result = idw.values[1]

\* A power below zero, no exact match, and a result strictly between two
\* different values.
C10_Witness ==
    /\ NoMatch
    /\ idw.weighted_function = "None"
    /\ idw.power_parameter = Neg(One)
    /\ Summable(RefRaw)
    /\ MinValue < call.result /\ call.result < MaxValue

Expected(t) == evaluate(idw, arg[t]).result

\* A finished call holds the result evaluate returns on the same position.
C6_CallsAgree ==
    \A t \in Threads : pc[t] = "done" => frames[Slot(t)].result = Expected(t)

\* C6: no step of a call of evaluate changes the instance, whatever the
\* other threads' calls on the same instance are doing, and every call
\* returns what evaluate returns on (instance, position) run alone.
C6_EvaluateLeavesInstanceAlone ==
    /\ []C6_CallsAgree
    /\ [][idw' = idw]_vars

\* Two threads have finished calls at different positions on the same
\* instance, a function installed, with different results.
C6_Witness ==
    /\ pc[1] = "done" /\ pc[2] = "done"
    /\ arg[1] # arg[2]
    /\ idw.weighted_function # "None"
    /\ frames[Slot(1)].result # frames[Slot(2)].result
    /\ frames[Slot(1)].weights # <<>> /\ frames[Slot(2)].weights # <<>>
====
